---- MODULE Spec2Model ----
(***************************************************************************)
(* Model of the inference pipelines of the YOLOv9 whole-body demo:         *)
(*   - YOLOv9Detector      (src/src/renderer/utils/yolov9.ts, lines 10-281)*)
(*   - PersonSegmentation  (src/src/renderer/utils/segmentation.ts,        *)
(*                          lines 194-411)                                 *)
(*   - nonMaxSuppression / calculateIoU (src/unnamed/part_002, lines 3-45) *)
(*                                                                         *)
(* The async methods of a pipeline are modelled as calls that run          *)
(* synchronously up to their next await; every await is a point where      *)
(* another call on the same instance may run.                              *)
(***************************************************************************)
EXTENDS Integers, Sequences, FiniteSets, TLC

\* ------------------------------------------------------------------ bounds
\* Calls that may be in flight on the instance at the same time.
MaxCalls == 2
\* Sessions InferenceSession.create may hand out during one behaviour.
MaxSessions == 2
\* Detection loops of the App alive at the same time.
MaxLoops == 3
\* Largest width and height of the segmentation model's output.
MaxSide == 3
\* Most boxes in an output tensor with few classes.
MaxLayoutBoxes == 8
\* The initializeModel runs of one application.
MaxLoads == 3
\* Candidates in the output tensor handed to the decode.
NumBoxes == 30
\* Longest list handed to nonMaxSuppression.
MaxBoxes == 3

Slots == 1..MaxCalls

\* ----------------------------------------------------------- lifecycle state
VARIABLES
  kind,               \* which class the instance is: "yolo" or "seg"
  onStatusUpdate,     \* the constructor's callback: "absent", "returns" or "throws"
  orphanCreates,      \* InferenceSession.create calls pending that no call awaits
  providers,          \* PersonSegmentation.initialize: the candidate list
  executionProvider,  \* this.config.executionProvider
  session,            \* this.session (NoSession = null)
  isWebGPU,           \* YOLOv9Detector.isWebGPU
  sessions,           \* every session created so far, with its release() count
  calls,              \* the calls on the instance: position and locals
  overlapped          \* history: the methods that ran while another call was in flight

lifecycleVars ==
  <<kind, onStatusUpdate, orphanCreates, providers, executionProvider, session, isWebGPU,
    sessions, calls, overlapped>>

\* ------------------------------------------------------------ decode state
\* One postprocess call: its arguments, the config fields it reads, the list
\* it builds and the list it returns.  Box coordinates are kept in half pixels, so that w / 2,
\* h / 2 and padY = (modelHeight - originalHeight) / 2 are exact.
VARIABLES
  output,               \* the output tensor: [dims, data]
  imageData,            \* [width, height] of the frame
  inputShape,           \* config.inputShape
  confidenceThreshold,  \* config.confidenceThreshold
  iouThreshold,         \* config.iouThreshold, a fraction [num, den]
  boxes,                \* postprocess: the list `boxes` when the loop is over
  detections,           \* what postprocess returned
  stage                 \* "input", then "decoded" ("off" outside this part)

decodeVars ==
  <<output, imageData, inputShape, confidenceThreshold, iouThreshold,
    boxes, detections, stage>>

\* ------------------------------------------------------- suppression state
VARIABLES
  nmsBoxes,   \* the list handed to nonMaxSuppression
  nmsPasses   \* the results of applying it, then applying it to its result

nmsVars == <<nmsBoxes, nmsPasses>>

\* ---------------------------------------------------------------- mask state
\* The part of segment() after the run: it reads the output tensor and the
\* frame (the variables output and imageData above).
VARIABLES
  threshold,    \* config.threshold
  croppedMask   \* what segment() returned

maskVars == <<threshold, croppedMask>>

\* ----------------------------------------------------------- frame loop state
\* The App component's detection loop on its one detector and its one
\* segmentation instance.
VARIABLES
  version,         \* which App: "current" (yolov9.ts) or "earlier" (part_003)
  isDetecting,     \* the state behind the Start / Stop button
  animationIdRef,  \* animationIdRef.current (NoFrame = null)
  pendingFrames,   \* the ids of the requested animation frames not yet run
  detectCalls,     \* detect() calls in flight on detectorRef.current
  segmentCalls,    \* segment() calls in flight on segmentationRef.current
  appDetections,   \* the App's state `detections`: "empty" ([]) or "boxes"
  segmentationMask \* the App's state `segmentationMask`: "null" or "mask"

loopVars ==
  <<version, isDetecting, animationIdRef, pendingFrames, detectCalls, segmentCalls,
    appDetections, segmentationMask>>

\* ----------------------------------------------------------- preprocess state
\* One preprocessImage call: it reads imageData and inputShape (above).
VARIABLES
  pipeline,      \* whose preprocessImage: "yolo" or "seg" ("off" outside this part)
  pixels,        \* imageData.data, as one <<r, g, b>> per pixel, row by row
  sampling,      \* how drawImage resamples at a destination between pixel rows
  preprocessed   \* the Float32Array returned, each value a fraction [num, den]

prepVars == <<pipeline, pixels, sampling, preprocessed>>

\* The application's model loading: the webcam is ready, the two refs, the
\* position of every initializeModel run, the pipelines that hold a session
\* and those dispose() was called on, and the two loading flags.
VARIABLES isReady, detectorRef, segmentationRef, loads, holding, disposeCalled,
          isModelLoaded, isModelLoading

loadVars == <<isReady, detectorRef, segmentationRef, loads, holding, disposeCalled,
              isModelLoaded, isModelLoading>>

vars == <<lifecycleVars, decodeVars, nmsVars, maskVars, loopVars, prepVars, loadVars>>

\* `private session: ort.InferenceSession | null = null`
NoSession == 0

\* The provider the application hands to both constructors (App state
\* executionProvider, toggled between the two values).
ConfiguredProviders == {"webgl", "webgpu"}

\* The candidate list of PersonSegmentation.initialize.  The list as shipped
\* holds webnn alone; the two further entries are the ones the source keeps
\* commented out in the same literal, and enabling them is the only way the
\* loop's fallback path runs.
ShippedProviders == <<"webnn">>
FullProviders == <<"webnn", "webgpu", "webgl">>
ProviderLists == {ShippedProviders, FullProviders}

\* Errors are told apart by what failed and, inside initialize, at which
\* candidate of the list.
NoError == [why |-> "none", at |-> 0]
Error(why, at) == [why |-> why, at |-> at]

\* A call slot that holds no call.
Idle ==
  [op |-> "none", pc |-> "idle", i |-> 0, tried |-> <<>>, lastError |-> NoError,
   statusFails |-> {},
   sessionCreated |-> FALSE, tempSession |-> NoSession, provider |-> "none",
   gpuPath |-> FALSE,
   preprocessed |-> FALSE, runs |-> <<>>, result |-> "none", error |-> NoError]

InFlight(c) == calls[c].pc \notin {"idle", "done"}
Free(c) == ~InFlight(c)

Resolve(r) == [r EXCEPT !.pc = "done", !.result = "resolved"]
Reject(r, e) == [r EXCEPT !.pc = "done", !.result = "rejected", !.error = e]

\* session.release() is invoked on session s by `who` ("dispose" or "init").
Release(ss, s, who) ==
  [ss EXCEPT ![s] = IF who = "dispose"
                      THEN [@ EXCEPT !.byDispose = @ + 1]
                      ELSE [@ EXCEPT !.byInit = @ + 1]]

Releases(s) == sessions[s].byDispose + sessions[s].byInit

\* Sessions created by the instance on which release() was never invoked.
Live == {s \in 1..Len(sessions) : Releases(s) = 0}

PendingCreates ==
  Cardinality({c \in Slots : calls[c].op = "initialize" /\ InFlight(c)}) + orphanCreates

\* The methods that overlap when a call of method `op` starts in slot c: it
\* overlaps every call in flight.
OverlapWith(c, op) ==
  LET others == {calls[d].op : d \in {e \in Slots \ {c} : InFlight(e)}} IN
  IF others = {} THEN {} ELSE others \cup {op}

\* A call of method `op` starts; it takes the lowest slot that holds no call
\* in flight (slots are interchangeable).
Start(c, op) ==
  /\ Free(c)
  /\ \A d \in Slots : d < c => InFlight(d)
  /\ overlapped' = overlapped \cup OverlapWith(c, op)

\* ------------------------------------------------------------- initialize
\* updateStatus(status) calls onStatusUpdate(status) when there is one, with
\* no try around the call: the outcomes of one updateStatus, TRUE when the
\* callback threw.
StatusThrows == IF onStatusUpdate = "throws" THEN BOOLEAN ELSE {FALSE}

\* What the callback does during the parts of one initialize() call that run
\* without an await in between, decided as the call starts: the set of the
\* places where it throws.  For PersonSegmentation 0 is 'Initializing
\* segmentation model...', i in 1..Len(providers) the head of the loop body
\* for candidate i ('Trying ...' up to the first await) and Len(providers) + 1
\* 'Failed to initialize segmentation model with any provider'.  For
\* YOLOv9Detector 0 is 'Initializing ONNX Runtime...' or 'Loading model...',
\* 1 'Compiling shaders...' and 2 'Failed to initialize model'.
StatusScripts ==
  IF onStatusUpdate = "throws"
    THEN SUBSET (0..((IF kind = "yolo" THEN 1 ELSE Len(providers)) + 1))
    ELSE {{}}

\* Past the loop: `if (!sessionCreated)`, updateStatus and `throw lastError`.
GiveUp(r) ==
  Reject(r, IF (Len(providers) + 1) \in r.statusFails
              THEN Error("status", Len(providers) + 1)
              ELSE r.lastError)

\* Mutant of Advance: gives up after the first failed candidate.
AdvanceGiveUp(r) == Reject(r, r.lastError)

\* PersonSegmentation.initialize: the head of the loop body for candidate i,
\* up to its first await (adapter selection for webgpu, else create), on an
\* instance that holds no session.  When the callback throws in the head the
\* catch block has nothing to release and the loop goes on at once.
RECURSIVE BeginCandidate(_, _)
\* After a candidate failed: the next candidate, or past the loop the
\* `if (!sessionCreated) throw lastError`.
Advance(r) ==
  IF r.i < Len(providers) THEN BeginCandidate(r, r.i + 1) ELSE GiveUp(r)

BeginCandidate(r, i) ==
  LET tries == [r EXCEPT !.i = i, !.tried = Append(@, providers[i])] IN
  IF i \in r.statusFails
    THEN Advance([tries EXCEPT !.lastError = Error("status", i)])
    ELSE [tries EXCEPT !.pc = IF providers[i] = "webgpu" THEN "adapter" ELSE "create"]

\* Mutant of SegCatch: the catch block without its clean-up of this.session.
SegCatchNoCleanup(c, e) ==
  /\ calls' = [calls EXCEPT ![c] = Advance([calls[c] EXCEPT !.lastError = e])]
  /\ UNCHANGED sessions

\* The catch block of the loop body: record the error and release the
\* session the instance holds, if any, before going on.
SegCatch(c, e) ==
  LET r == [calls[c] EXCEPT !.lastError = e] IN
  IF session # NoSession
    THEN /\ sessions' = Release(sessions, session, "init")
         /\ calls' = [calls EXCEPT ![c] = [r EXCEPT !.pc = "cleanup"]]
    ELSE /\ calls' = [calls EXCEPT ![c] = Advance(r)]
         /\ UNCHANGED sessions

\* The catch block of YOLOv9Detector.initialize: updateStatus('Failed to
\* initialize model'), then `throw error`.
YoloCatch(r, e) ==
  Reject(r, IF 2 \in r.statusFails THEN Error("status", 2) ELSE e)

\* YOLOv9Detector.initialize up to `await sessionPromise`.  A throw of
\* 'Compiling shaders...' comes after InferenceSession.create was called, so
\* the create stays pending with no one awaiting it.
YoloInitialize(c, r) ==
  /\ UNCHANGED sessions
  /\ IF 0 \in r.statusFails
       THEN /\ calls' = [calls EXCEPT ![c] = YoloCatch(r, Error("status", 0))]
            /\ UNCHANGED orphanCreates
       ELSE IF 1 \in r.statusFails
         THEN /\ calls' = [calls EXCEPT ![c] = YoloCatch(r, Error("status", 1))]
              /\ orphanCreates' = orphanCreates + 1
         ELSE /\ calls' = [calls EXCEPT ![c] = [r EXCEPT !.pc = "create"]]
              /\ UNCHANGED orphanCreates

\* PersonSegmentation.initialize up to its first await.  The first
\* updateStatus is outside the try; a throw in the head of the first
\* candidate is caught, and the catch block releases the session an
\* instance that was initialized before still holds.
SegInitialize(c, r) ==
  /\ UNCHANGED orphanCreates
  /\ IF 0 \in r.statusFails
       THEN /\ calls' = [calls EXCEPT ![c] = Reject(r, Error("status", 0))]
            /\ UNCHANGED sessions
       ELSE IF 1 \in r.statusFails /\ session # NoSession
         THEN /\ sessions' = Release(sessions, session, "init")
              /\ calls' = [calls EXCEPT ![c] =
                   [r EXCEPT !.i = 1, !.tried = <<providers[1]>>, !.pc = "cleanup",
                             !.lastError = Error("status", 1)]]
         ELSE /\ calls' = [calls EXCEPT ![c] = BeginCandidate(r, 1)]
              /\ UNCHANGED sessions

CallInitialize(c) ==
  /\ Start(c, "initialize")
  /\ Len(sessions) + PendingCreates < MaxSessions
  /\ \E fails \in StatusScripts :
       IF kind = "yolo"
         THEN YoloInitialize(c, [Idle EXCEPT !.op = "initialize", !.i = 1,
                                             !.tried = <<executionProvider>>,
                                             !.statusFails = fails])
         ELSE SegInitialize(c, [Idle EXCEPT !.op = "initialize", !.statusFails = fails])
  /\ UNCHANGED <<decodeVars, nmsVars, maskVars, loopVars, prepVars, loadVars, kind, onStatusUpdate, providers, executionProvider, session, isWebGPU>>

\* selectGPUAdapterByIndex returned an adapter: 'Using GPU for
\* segmentation: ...', 'Loading segmentation model with ...', 'Compiling
\* shaders for segmentation...', then create.
AdapterFound(c) ==
  /\ calls[c].op = "initialize" /\ calls[c].pc = "adapter"
  /\ \E threw \in StatusThrows :
       IF threw
         THEN SegCatch(c, Error("status", calls[c].i))
         ELSE /\ calls' = [calls EXCEPT ![c].pc = "create"]
              /\ UNCHANGED sessions
  /\ UNCHANGED <<decodeVars, nmsVars, maskVars, loopVars, prepVars, loadVars, kind, onStatusUpdate, orphanCreates, providers, executionProvider, session, isWebGPU, overlapped>>

\* selectGPUAdapterByIndex returned null: 'No suitable GPU adapter found'.
AdapterMissing(c) ==
  /\ calls[c].op = "initialize" /\ calls[c].pc = "adapter"
  /\ SegCatch(c, Error("adapter", calls[c].i))
  /\ UNCHANGED <<decodeVars, nmsVars, maskVars, loopVars, prepVars, loadVars, kind, onStatusUpdate, orphanCreates, providers, executionProvider, session, isWebGPU, overlapped>>

\* InferenceSession.create resolved: the session is assigned (and the
\* provider recorded), then comes the updateStatus of the success message.
\* When that throws, YOLOv9Detector rethrows with the session assigned, and
\* PersonSegmentation's catch block releases the session just assigned.
CreateSucceeds(c) ==
  /\ calls[c].op = "initialize" /\ calls[c].pc = "create"
  /\ session' = Len(sessions) + 1
  /\ \E threw \in StatusThrows :
       IF kind = "yolo"
         THEN /\ sessions' = Append(sessions, [byDispose |-> 0, byInit |-> 0])
              /\ isWebGPU' = (isWebGPU \/ executionProvider = "webgpu")
              /\ UNCHANGED executionProvider
              /\ calls' = [calls EXCEPT ![c] =
                   IF threw THEN YoloCatch(@, Error("status", 3))
                            ELSE Resolve([@ EXCEPT !.sessionCreated = TRUE])]
         ELSE /\ executionProvider' = providers[calls[c].i]
              /\ UNCHANGED isWebGPU
              /\ IF threw
                   THEN /\ sessions' = Append(sessions, [byDispose |-> 0, byInit |-> 1])
                        /\ calls' = [calls EXCEPT ![c] =
                             [@ EXCEPT !.pc = "cleanup",
                                       !.lastError = Error("status", calls[c].i)]]
                   ELSE /\ sessions' = Append(sessions, [byDispose |-> 0, byInit |-> 0])
                        /\ calls' = [calls EXCEPT ![c] =
                             Resolve([@ EXCEPT !.sessionCreated = TRUE])]
  /\ UNCHANGED <<decodeVars, nmsVars, maskVars, loopVars, prepVars, loadVars, kind, onStatusUpdate, orphanCreates, providers, overlapped>>

\* InferenceSession.create rejected.
CreateFails(c) ==
  /\ calls[c].op = "initialize" /\ calls[c].pc = "create"
  /\ IF kind = "yolo"
       THEN /\ calls' = [calls EXCEPT ![c] = YoloCatch(@, Error("create", calls[c].i))]
            /\ UNCHANGED sessions
       ELSE SegCatch(c, Error("create", calls[c].i))
  /\ UNCHANGED <<decodeVars, nmsVars, maskVars, loopVars, prepVars, loadVars, kind, onStatusUpdate, orphanCreates, providers, executionProvider, session, isWebGPU, overlapped>>

\* Mutant of CleanupSettles: a release() that fails ends the call.
CleanupSettlesAborts(c) ==
  /\ calls[c].op = "initialize" /\ calls[c].pc = "cleanup"
  /\ session' = NoSession
  /\ \E threw \in BOOLEAN :
       calls' = [calls EXCEPT ![c] =
         IF threw THEN Reject(@, Error("release", calls[c].i)) ELSE Advance(@)]
  /\ UNCHANGED <<decodeVars, nmsVars, maskVars, loopVars, prepVars, loadVars, kind, onStatusUpdate, orphanCreates, providers, executionProvider, isWebGPU, sessions, overlapped>>

\* The release awaited in the catch block settled; when it threw, the inner
\* catch logs it.  Either way the reference is cleared and the loop goes on.
CleanupSettles(c) ==
  /\ calls[c].op = "initialize" /\ calls[c].pc = "cleanup"
  /\ session' = NoSession
  /\ \E threw \in BOOLEAN : calls' = [calls EXCEPT ![c] = Advance(@)]
  /\ UNCHANGED <<decodeVars, nmsVars, maskVars, loopVars, prepVars, loadVars, kind, onStatusUpdate, orphanCreates, providers, executionProvider, isWebGPU, sessions, overlapped>>

\* A create that YOLOv9Detector.initialize started and no longer awaits
\* settles: a session it resolves with is referenced by nothing.
OrphanCreateSettles ==
  /\ orphanCreates > 0
  /\ orphanCreates' = orphanCreates - 1
  /\ \E created \in BOOLEAN :
       sessions' = IF created
                     THEN Append(sessions, [byDispose |-> 0, byInit |-> 0])
                     ELSE sessions
  /\ UNCHANGED <<decodeVars, nmsVars, maskVars, loopVars, prepVars, loadVars, kind, onStatusUpdate, providers, executionProvider, session, isWebGPU, calls, overlapped>>

\* ---------------------------------------------------------------- dispose
\* Mutant of CallDispose: the reference is not cleared before the release
\* is awaited.
CallDisposeKeepsReference(c) ==
  /\ Start(c, "dispose")
  /\ IF session # NoSession
       THEN /\ sessions' = Release(sessions, session, "dispose")
            /\ calls' = [calls EXCEPT ![c] =
                 [Idle EXCEPT !.op = "dispose", !.pc = "release", !.tempSession = session]]
            /\ UNCHANGED <<session, isWebGPU>>
       ELSE /\ isWebGPU' = FALSE
            /\ calls' = [calls EXCEPT ![c] = Resolve([Idle EXCEPT !.op = "dispose"])]
            /\ UNCHANGED <<session, sessions>>
  /\ UNCHANGED <<decodeVars, nmsVars, maskVars, loopVars, prepVars, loadVars, kind, onStatusUpdate, orphanCreates, providers, executionProvider>>

CallDispose(c) ==
  /\ Start(c, "dispose")
  /\ IF session # NoSession
       THEN /\ session' = NoSession
            /\ sessions' = Release(sessions, session, "dispose")
            /\ calls' = [calls EXCEPT ![c] =
                 [Idle EXCEPT !.op = "dispose", !.pc = "release", !.tempSession = session]]
            /\ UNCHANGED isWebGPU
       ELSE /\ isWebGPU' = FALSE
            /\ calls' = [calls EXCEPT ![c] = Resolve([Idle EXCEPT !.op = "dispose"])]
            /\ UNCHANGED <<session, sessions>>
  /\ UNCHANGED <<decodeVars, nmsVars, maskVars, loopVars, prepVars, loadVars, kind, onStatusUpdate, orphanCreates, providers, executionProvider>>

\* Mutant of ReleaseSettles: a rejection of release() is thrown on.
ReleaseSettlesRethrows(c) ==
  /\ calls[c].op = "dispose" /\ calls[c].pc = "release"
  /\ \E threw \in BOOLEAN :
       calls' = [calls EXCEPT ![c] =
         IF threw THEN Reject([@ EXCEPT !.lastError = Error("release", 0)], Error("release", 0))
                  ELSE Resolve(@)]
  /\ isWebGPU' = FALSE
  /\ UNCHANGED <<decodeVars, nmsVars, maskVars, loopVars, prepVars, loadVars, kind, onStatusUpdate, orphanCreates, providers, executionProvider, session, sessions, overlapped>>

\* tempSession.release() settled; a rejection is caught and logged.
ReleaseSettles(c) ==
  /\ calls[c].op = "dispose" /\ calls[c].pc = "release"
  /\ \E threw \in BOOLEAN :
       calls' = [calls EXCEPT ![c] =
         Resolve([@ EXCEPT !.lastError = IF threw THEN Error("release", 0) ELSE NoError])]
  /\ isWebGPU' = FALSE
  /\ UNCHANGED <<decodeVars, nmsVars, maskVars, loopVars, prepVars, loadVars, kind, onStatusUpdate, orphanCreates, providers, executionProvider, session, sessions, overlapped>>

\* ------------------------------------------------------- detect / segment
\* The providers for which the call takes the branch with run options and
\* the catch-and-retry.
RetryProviders == IF kind = "yolo" THEN {"webgpu"} ELSE {"webgpu", "webnn"}

\* segment() reads this.session.outputNames after the awaited run; detect()
\* takes outputs['output0'] first and reads this.session only when absent.
ReadOutput(r) ==
  IF kind = "seg" /\ session = NoSession
    THEN Reject(r, Error("TypeError", 0))
    ELSE Resolve(r)

\* Mutant of CallInfer: the `if (!this.session) throw` guard is missing.
CallInferUnguarded(c) ==
  /\ Start(c, "infer")
  /\ calls' = [calls EXCEPT ![c] =
       LET gpu == executionProvider \in RetryProviders IN
       [Idle EXCEPT !.op = "infer", !.pc = "run1", !.preprocessed = TRUE,
                    !.provider = executionProvider, !.gpuPath = gpu,
                    !.runs = <<IF gpu THEN "reduced" ELSE "default">>]]
  /\ UNCHANGED <<decodeVars, nmsVars, maskVars, loopVars, prepVars, loadVars, kind, onStatusUpdate, orphanCreates, providers, executionProvider, session, isWebGPU, sessions>>

CallInfer(c) ==
  /\ Start(c, "infer")
  /\ calls' = [calls EXCEPT ![c] =
       IF session = NoSession
         THEN Reject([Idle EXCEPT !.op = "infer"], Error("NotInitialized", 0))
         ELSE LET gpu == executionProvider \in RetryProviders IN
              [Idle EXCEPT !.op = "infer", !.pc = "run1", !.preprocessed = TRUE,
                           !.provider = executionProvider, !.gpuPath = gpu,
                           !.runs = <<IF gpu THEN "reduced" ELSE "default">>]]
  /\ UNCHANGED <<decodeVars, nmsVars, maskVars, loopVars, prepVars, loadVars, kind, onStatusUpdate, orphanCreates, providers, executionProvider, session, isWebGPU, sessions>>

RunSucceeds(c) ==
  /\ calls[c].op = "infer" /\ calls[c].pc \in {"run1", "run2"}
  /\ calls' = [calls EXCEPT ![c] = ReadOutput(@)]
  /\ UNCHANGED <<decodeVars, nmsVars, maskVars, loopVars, prepVars, loadVars, kind, onStatusUpdate, orphanCreates, providers, executionProvider, session, isWebGPU, sessions, overlapped>>

\* Mutant of RunFails: the first failure is not retried.
RunFailsNoRetry(c) ==
  /\ calls[c].op = "infer" /\ calls[c].pc \in {"run1", "run2"}
  /\ calls' = [calls EXCEPT ![c] = Reject(@, Error("run", Len(calls[c].runs)))]
  /\ UNCHANGED <<decodeVars, nmsVars, maskVars, loopVars, prepVars, loadVars, kind, onStatusUpdate, orphanCreates, providers, executionProvider, session, isWebGPU, sessions, overlapped>>

RunFails(c) ==
  /\ calls[c].op = "infer" /\ calls[c].pc \in {"run1", "run2"}
  /\ calls' = [calls EXCEPT ![c] =
       IF calls[c].pc = "run1" /\ calls[c].gpuPath
         THEN IF session = NoSession
                THEN Reject(@, Error("TypeError", 0))
                ELSE [@ EXCEPT !.pc = "run2", !.runs = Append(@, "default")]
         ELSE Reject(@, Error("run", Len(calls[c].runs)))]
  /\ UNCHANGED <<decodeVars, nmsVars, maskVars, loopVars, prepVars, loadVars, kind, onStatusUpdate, orphanCreates, providers, executionProvider, session, isWebGPU, sessions, overlapped>>

\* ------------------------------------------------------------ suppression
\* A BoundingBox.  Confidences are kept in hundredths and a ratio of two
\* areas as the pair [num, den], so every comparison is exact.
Box(x1, y1, x2, y2, confidence, class, label) ==
  [x1 |-> x1, y1 |-> y1, x2 |-> x2, y2 |-> y2,
   confidence |-> confidence, class |-> class, label |-> label]

Max(a, b) == IF a >= b THEN a ELSE b
Min(a, b) == IF a <= b THEN a ELSE b

\* Mutant of calculateIoU: the intersection is divided by the first box's
\* area.
calculateIoUOverFirst(box1, box2) ==
  LET intersectionWidth == Max(0, Min(box1.x2, box2.x2) - Max(box1.x1, box2.x1))
      intersectionHeight == Max(0, Min(box1.y2, box2.y2) - Max(box1.y1, box2.y1))
  IN [num |-> intersectionWidth * intersectionHeight,
      den |-> (box1.x2 - box1.x1) * (box1.y2 - box1.y1)]

\* Returns intersectionArea / unionArea, here as the two operands.
calculateIoU(box1, box2) ==
  LET x1 == Max(box1.x1, box2.x1)
      y1 == Max(box1.y1, box2.y1)
      x2 == Min(box1.x2, box2.x2)
      y2 == Min(box1.y2, box2.y2)
      intersectionWidth == Max(0, x2 - x1)
      intersectionHeight == Max(0, y2 - y1)
      intersectionArea == intersectionWidth * intersectionHeight
      box1Area == (box1.x2 - box1.x1) * (box1.y2 - box1.y1)
      box2Area == (box2.x2 - box2.x1) * (box2.y2 - box2.y1)
      unionArea == box1Area + box2Area - intersectionArea
  IN [num |-> intersectionArea, den |-> unionArea]

\* `q < t` on numbers, q = q.num / q.den as the division produced it and t
\* a finite threshold with t.den > 0.  A zero divisor gives NaN (0 / 0) or
\* Infinity, and neither is less than anything finite.
LessThan(q, t) ==
  IF q.den > 0 THEN q.num * t.den < t.num * q.den
  ELSE IF q.den < 0 THEN q.num * t.den > t.num * q.den
  ELSE FALSE

\* Mutant of InsertByConfidence: a box goes before the boxes it ties with.
RECURSIVE InsertBeforeTies(_, _)
InsertBeforeTies(sorted, box) ==
  IF sorted = <<>> \/ Head(sorted).confidence <= box.confidence
    THEN <<box>> \o sorted
    ELSE <<Head(sorted)>> \o InsertBeforeTies(Tail(sorted), box)

\* One step of `sort((a, b) => b.confidence - a.confidence)`: descending,
\* and stable, so a box goes after the boxes it ties with.
RECURSIVE InsertByConfidence(_, _)
InsertByConfidence(sorted, box) ==
  IF sorted = <<>> \/ Head(sorted).confidence < box.confidence
    THEN <<box>> \o sorted
    ELSE <<Head(sorted)>> \o InsertByConfidence(Tail(sorted), box)

\* `[...boxes].sort(...)`
RECURSIVE SortByConfidence(_)
SortByConfidence(bs) ==
  IF bs = <<>> THEN <<>>
  ELSE InsertByConfidence(SortByConfidence(SubSeq(bs, 1, Len(bs) - 1)), bs[Len(bs)])

\* Mutant of Select: nothing is removed.
SelectEverything(sortedBoxes, tau) == sortedBoxes

\* Mutant of Select: the class of a box is not looked at.
RECURSIVE SelectAcrossClasses(_, _)
SelectAcrossClasses(sortedBoxes, tau) ==
  IF sortedBoxes = <<>> THEN <<>>
  ELSE LET current == Head(sortedBoxes)
           Keeps(box) == LessThan(calculateIoU(current, box), tau)
           remaining == SelectSeq(Tail(sortedBoxes), Keeps)
       IN <<current>> \o SelectAcrossClasses(remaining, tau)

\* The while loop: take the first box, keep of the others those of another
\* class or with IoU below the threshold, and go on with what is kept.
RECURSIVE Select(_, _)
Select(sortedBoxes, tau) ==
  IF sortedBoxes = <<>> THEN <<>>
  ELSE LET current == Head(sortedBoxes)
           Keeps(box) == box.class # current.class
                           \/ LessThan(calculateIoU(current, box), tau)
           remaining == SelectSeq(Tail(sortedBoxes), Keeps)
       IN <<current>> \o Select(remaining, tau)

nonMaxSuppression(bs, tau) ==
  IF Len(bs) = 0 THEN <<>> ELSE Select(SortByConfidence(bs), tau)

\* ----------------------------------------------------------------- decode
labels ==
  <<"Body", "Adult", "Child", "Male", "Female",
    "Body_with_Wheelchair", "Body_with_Crutches", "Head", "Front", "Right_Front",
    "Right_Side", "Right_Back", "Back", "Left_Back", "Left_Side",
    "Left_Front", "Face", "Eye", "Nose", "Mouth",
    "Ear", "Hand", "Hand_Left", "Hand_Right", "Foot">>

excludedClassIds == {1, 2, 3, 4, 8, 9, 10, 11, 12, 13, 14, 15, 22, 23}

\* `this.labels[bestClass] || `class_${bestClass}``
Label(bestClass) ==
  IF bestClass \in 0..(Len(labels) - 1)
    THEN labels[bestClass + 1]
    ELSE "class_" \o ToString(bestClass)

\* outputData[k], k counted from 0 as in the source.
outputData(out, k) == out.data[k + 1]

\* The layout decision on dims = [1, a, b]: a > b reads the tensor as
\* [1, num_boxes, num_classes + 4], anything else as the transposed
\* [1, num_classes + 4, num_boxes].
isTransposed(out) == ~(out.dims[2] > out.dims[3])
numBoxes(out) == IF out.dims[2] > out.dims[3] THEN out.dims[2] ELSE out.dims[3]
numClasses(out) == (IF out.dims[2] > out.dims[3] THEN out.dims[3] ELSE out.dims[2]) - 4

\* Mutant of Value: every tensor is read as [1, num_boxes, num_classes + 4].
ValueBoxMajor(out, i, k) == outputData(out, i * (numClasses(out) + 4) + k)

\* Value k (0..3 are cx, cy, w, h; 4 + c is the score of class c) of
\* candidate i, i counted from 0.
Value(out, i, k) ==
  IF isTransposed(out)
    THEN outputData(out, k * numBoxes(out) + i)
    ELSE outputData(out, i * (numClasses(out) + 4) + k)

classScores(out, i) == [c \in 1..numClasses(out) |-> Value(out, i, 4 + (c - 1))]

\* Mutant of BestFrom: a later class with the same score replaces the
\* earlier one.
RECURSIVE BestFromLast(_, _, _)
BestFromLast(scores, c, best) ==
  IF c >= Len(scores) THEN best
  ELSE BestFromLast(scores, c + 1,
         IF scores[c + 1] >= best.maxConfidence
           THEN [maxConfidence |-> scores[c + 1], bestClass |-> c]
           ELSE best)

\* The best-class loop from class c on (c counted from 0), `best` holding
\* maxConfidence and bestClass so far.
RECURSIVE BestFrom(_, _, _)
BestFrom(scores, c, best) ==
  IF c >= Len(scores) THEN best
  ELSE BestFrom(scores, c + 1,
         IF scores[c + 1] > best.maxConfidence
           THEN [maxConfidence |-> scores[c + 1], bestClass |-> c]
           ELSE best)

Best(scores) == BestFrom(scores, 0, [maxConfidence |-> 0, bestClass |-> -1])

\* Mutant of Passes: a score equal to the threshold passes.
PassesAtThreshold(best) ==
  /\ best.maxConfidence >= confidenceThreshold
  /\ best.bestClass \notin excludedClassIds

\* Mutant of Passes: the excluded set is not consulted.
PassesAnyClass(best) == best.maxConfidence > confidenceThreshold

\* The filter on a candidate's best class.
Passes(best) ==
  /\ best.maxConfidence > confidenceThreshold
  /\ best.bestClass \notin excludedClassIds

padX == 0

\* The box pushed for candidate i.  Coordinates are in half pixels: twice
\* the source's value, so 2 * (cx - w / 2 - padX) = 2 * cx - w - 2 * padX and
\* 2 * padY = modelHeight - originalHeight.
Corners(out, i, originalWidth, originalHeight) ==
  LET cx == Value(out, i, 0)
      cy == Value(out, i, 1)
      w == Value(out, i, 2)
      h == Value(out, i, 3)
      modelHeight == inputShape[3]
      padY2 == modelHeight - originalHeight
      best == Best(classScores(out, i))
      x1 == (2 * cx - w) - 2 * padX
      y1 == (2 * cy - h) - padY2
      x2 == (2 * cx + w) - 2 * padX
      y2 == (2 * cy + h) - padY2
  IN Box(Max(0, x1), Max(0, y1),
         Min(2 * originalWidth, x2), Min(2 * originalHeight, y2),
         best.maxConfidence, best.bestClass, Label(best.bestClass))

\* The loop over the candidates from i on, appending to the list bs: the
\* candidates that pass the filter, in index order, each with its box.
DecodeFrom(out, i, originalWidth, originalHeight, bs) ==
  LET rest == [k \in 1..(numBoxes(out) - i) |-> i + k - 1]
      passing == SelectSeq(rest, LAMBDA j : Passes(Best(classScores(out, j))))
  IN bs \o [k \in 1..Len(passing) |->
              Corners(out, passing[k], originalWidth, originalHeight)]

\* The list `boxes` at the end of postprocess (empty on the early return).
Decoded(out, originalWidth, originalHeight) ==
  IF Len(out.dims) = 3
    THEN DecodeFrom(out, 0, originalWidth, originalHeight, <<>>)
    ELSE <<>>

\* Mutant of postprocess: a tensor without the batch dimension is decoded
\* as if it had one.
postprocessAnyRank(out, originalWidth, originalHeight) ==
  nonMaxSuppression(
    DecodeFrom(IF Len(out.dims) = 3 THEN out ELSE [out EXCEPT !.dims = <<1>> \o @],
               0, originalWidth, originalHeight, <<>>),
    iouThreshold)

postprocess(out, originalWidth, originalHeight) ==
  IF Len(out.dims) = 3
    THEN nonMaxSuppression(Decoded(out, originalWidth, originalHeight), iouThreshold)
    ELSE <<>>

\* ------------------------------------------------------------------- mask
\* mask[i]: `outputData[i] >= this.config.threshold ? 255 : 0`
MaskByte(out, i) == IF outputData(out, i) >= threshold THEN 255 ELSE 0

\* croppedMask[dstIdx] = mask[srcIdx] for frame pixel (x, y), with
\* srcIdx = (y + padY) * modelWidth + x and padY = (modelHeight - height) / 2.
\* srcIdx2 is twice srcIdx, so that a padY of a half stays exact.  Reading a
\* Uint8Array at an index that is no integer, or past its end, gives
\* undefined, and storing undefined stores 0.
CroppedByte(out, width, height, x, y) ==
  LET modelHeight == out.dims[3]
      modelWidth == out.dims[4]
      srcIdx2 == (2 * y + (modelHeight - height)) * modelWidth + 2 * x
  IN IF srcIdx2 % 2 = 0 /\ srcIdx2 \div 2 < modelWidth * modelHeight
       THEN MaskByte(out, srcIdx2 \div 2)
       ELSE 0

\* The buffer segment() returns: width * height bytes, dstIdx = y * width + x.
Cropped(out, width, height) ==
  [d \in 1..(width * height) |->
     CroppedByte(out, width, height, (d - 1) % width, (d - 1) \div width)]

\* ------------------------------------------------------------- frame loop
\* `animationIdRef.current = null`
NoFrame == 0
\* `animationIdRef.current = 1`, the value startDetection sets before the
\* first frame is requested.
Started == 1

\* The id requestAnimationFrame returns: one that no pending frame and no
\* reference holds.
NewFrame(ref, pending) ==
  CHOOSE id \in 2..(MaxLoops + 3) : id \notin pending \cup {ref}

\* `animationIdRef.current = requestAnimationFrame(detect)`
RequestFrame(ref, pending) ==
  /\ animationIdRef' = NewFrame(ref, pending)
  /\ pendingFrames' = pending \cup {NewFrame(ref, pending)}

\* The closure detect() up to its first await, animationIdRef.current and
\* the pending frames being ref and pending when it is entered: it returns
\* when the loop was stopped (current App only), requests the next frame
\* when the video has no frame yet, and else calls detectorRef.current.detect.
detect(ref, pending) ==
  IF version = "current" /\ ref = NoFrame
    THEN /\ animationIdRef' = ref /\ pendingFrames' = pending
         /\ UNCHANGED <<detectCalls, segmentCalls>>
    ELSE \E haveEnoughData \in BOOLEAN :
           IF haveEnoughData
             THEN /\ detectCalls' = detectCalls + 1
                  /\ animationIdRef' = ref /\ pendingFrames' = pending
                  /\ UNCHANGED segmentCalls
             ELSE /\ RequestFrame(ref, pending)
                  /\ UNCHANGED <<detectCalls, segmentCalls>>

\* The end of detect(), after the try block: the current App requests the
\* next frame unless the loop was stopped, the earlier one always.
NextFrame ==
  IF version = "current" /\ animationIdRef = NoFrame
    THEN UNCHANGED <<animationIdRef, pendingFrames>>
    ELSE RequestFrame(animationIdRef, pendingFrames)

\* A click on the button while it reads 'Start Detection'.
startDetection ==
  /\ ~isDetecting
  /\ detectCalls + segmentCalls + Cardinality(pendingFrames) < MaxLoops
  /\ isDetecting' = TRUE
  /\ IF version = "current"
       THEN detect(Started, pendingFrames)
       ELSE detect(animationIdRef, pendingFrames)
  /\ UNCHANGED <<lifecycleVars, decodeVars, nmsVars, maskVars, prepVars, loadVars, version,
                 appDetections, segmentationMask>>

\* A click on the button while it reads 'Stop Detection'.
stopDetection ==
  /\ isDetecting
  /\ isDetecting' = FALSE
  /\ animationIdRef' = NoFrame
  /\ pendingFrames' = pendingFrames \ {animationIdRef}
  /\ appDetections' = "empty"
  /\ segmentationMask' = IF version = "current" THEN "null" ELSE segmentationMask
  /\ UNCHANGED <<lifecycleVars, decodeVars, nmsVars, maskVars, prepVars, loadVars, version, detectCalls, segmentCalls>>

\* The browser runs a requested animation frame.
AnimationFrame ==
  /\ \E id \in pendingFrames : detect(animationIdRef, pendingFrames \ {id})
  /\ UNCHANGED <<lifecycleVars, decodeVars, nmsVars, maskVars, prepVars, loadVars, version, isDetecting,
                 appDetections, segmentationMask>>

\* `await detectorRef.current.detect(imageData)` settles: resolved, the
\* current App goes on to segment() and the earlier one publishes the
\* boxes; rejected, both go to the catch block; but for the current App
\* that went on to segment(), the end of detect() follows.
DetectSettles ==
  /\ detectCalls > 0
  /\ detectCalls' = detectCalls - 1
  /\ \E resolved \in BOOLEAN :
       IF resolved /\ version = "current"
         THEN /\ segmentCalls' = segmentCalls + 1
              /\ UNCHANGED <<animationIdRef, pendingFrames, appDetections>>
         ELSE /\ appDetections' = IF resolved THEN "boxes" ELSE appDetections
              /\ NextFrame
              /\ UNCHANGED segmentCalls
  /\ UNCHANGED <<lifecycleVars, decodeVars, nmsVars, maskVars, prepVars, loadVars, version, isDetecting,
                 segmentationMask>>

\* `await segmentationRef.current.segment(imageData)` settles: resolved,
\* the boxes and the mask are published; rejected, the catch block runs;
\* the end of detect() follows.
SegmentSettles ==
  /\ segmentCalls > 0
  /\ segmentCalls' = segmentCalls - 1
  /\ \E resolved \in BOOLEAN :
       IF resolved
         THEN appDetections' = "boxes" /\ segmentationMask' = "mask"
         ELSE UNCHANGED <<appDetections, segmentationMask>>
  /\ NextFrame
  /\ UNCHANGED <<lifecycleVars, decodeVars, nmsVars, maskVars, prepVars, loadVars, version, isDetecting, detectCalls>>

\* ---------------------------------------------------------- model loading
Loads == 1..MaxLoads

\* `new YOLOv9Detector(...)` / `new PersonSegmentation(...)` of run r.
Detector(r) == <<"yolo", r>>
Segmentation(r) == <<"seg", r>>

\* `detectorRef.current = null`
NoPipeline == <<"none", 0>>

\* dispose() called on what the refs in `refs` hold: a held session is
\* dropped at once (`this.session = null` before the release is awaited).
Dispose(refs) ==
  /\ holding' = holding \ refs
  /\ disposeCalled' = disposeCalled \cup (refs \ {NoPipeline})

\* initializeModel up to its first await, the refs holding dRef and sRef
\* when it is entered: it waits for the dispose() of a pipeline a ref
\* still holds, and else constructs both pipelines and waits for
\* detector.initialize().
Begin(dRef, sRef) ==
  IF dRef # NoPipeline THEN "disposeDetector"
  ELSE IF version = "current" /\ sRef # NoPipeline THEN "disposeSegmentation"
  ELSE "detector"

\* The end of the try block of run r: the refs are assigned.
Loaded(r) ==
  /\ detectorRef' = Detector(r)
  /\ segmentationRef' = IF version = "current" THEN Segmentation(r) ELSE segmentationRef
  /\ isModelLoaded' = TRUE
  /\ isModelLoading' = FALSE
  /\ loads' = [loads EXCEPT ![r] = "loaded"]

\* The catch and finally blocks of run r: the refs are set to null.
Failed(r) ==
  /\ detectorRef' = NoPipeline
  /\ segmentationRef' = IF version = "current" THEN NoPipeline ELSE segmentationRef
  /\ isModelLoaded' = FALSE
  /\ isModelLoading' = FALSE
  /\ loads' = [loads EXCEPT ![r] = "failed"]
  /\ UNCHANGED <<holding, disposeCalled>>

\* The effect of [isReady, initializeModel] runs again: the cleanup of the
\* previous run of the effect disposes what the refs hold and sets them to
\* null, and when the webcam is ready initializeModel() is called and runs
\* to its first await.
EffectRuns ==
  /\ \E r \in Loads :
       /\ loads[r] = "idle"
       /\ \A q \in 1..(r - 1) : loads[q] # "idle"
       /\ Dispose({detectorRef, segmentationRef})
       /\ detectorRef' = NoPipeline
       /\ segmentationRef' = NoPipeline
       /\ \E ready \in BOOLEAN :
            /\ isReady' = ready
            /\ IF ready
                 THEN /\ isModelLoading' = TRUE
                      /\ loads' = [loads EXCEPT ![r] = Begin(detectorRef', segmentationRef')]
                 ELSE UNCHANGED <<isModelLoading, loads>>
       /\ UNCHANGED isModelLoaded
  /\ UNCHANGED <<lifecycleVars, decodeVars, nmsVars, maskVars, loopVars, prepVars>>

\* The promise run r of initializeModel awaits settles, and the run goes
\* on to its next await or to its end.
Resume(r) ==
  /\ loads[r] \in {"disposeDetector", "disposeSegmentation", "detector", "segmentation"}
  /\ CASE loads[r] = "disposeDetector" ->
            /\ detectorRef' = NoPipeline
            /\ loads' = [loads EXCEPT ![r] = Begin(NoPipeline, segmentationRef)]
            /\ Dispose(IF Begin(NoPipeline, segmentationRef) = "disposeSegmentation"
                         THEN {segmentationRef} ELSE {})
            /\ UNCHANGED <<segmentationRef, isModelLoaded, isModelLoading>>
       [] loads[r] = "disposeSegmentation" ->
            /\ segmentationRef' = NoPipeline
            /\ loads' = [loads EXCEPT ![r] = "detector"]
            /\ UNCHANGED <<detectorRef, holding, disposeCalled, isModelLoaded, isModelLoading>>
       [] loads[r] = "detector" ->
            \E resolved \in BOOLEAN :
              IF resolved
                THEN /\ holding' = holding \cup {Detector(r)}
                     /\ UNCHANGED disposeCalled
                     /\ IF version = "current"
                          THEN /\ loads' = [loads EXCEPT ![r] = "segmentation"]
                               /\ UNCHANGED <<detectorRef, segmentationRef,
                                              isModelLoaded, isModelLoading>>
                          ELSE Loaded(r)
                ELSE Failed(r)
       [] loads[r] = "segmentation" ->
            \E resolved \in BOOLEAN :
              IF resolved
                THEN /\ holding' = holding \cup {Segmentation(r)}
                     /\ UNCHANGED disposeCalled
                     /\ Loaded(r)
                ELSE Failed(r)
  /\ UNCHANGED <<lifecycleVars, decodeVars, nmsVars, maskVars, loopVars, prepVars, isReady>>

\* ------------------------------------------------------------- preprocess
Black == <<0, 0, 0>>

\* The pixel (x, y) of tempCanvas after putImageData; nothing outside it.
FramePixel(x, y) ==
  IF x \in 0..(imageData.width - 1) /\ y \in 0..(imageData.height - 1)
    THEN pixels[y * imageData.width + x + 1]
    ELSE Black

\* The pixel (x, y) of the model-sized canvas after fillRect (black) and
\* `ctx.drawImage(tempCanvas, padX, padY, width, height)`, padX = 0 and
\* padY = (modelHeight - height) / 2.  With a whole padY row y shows frame
\* row y - padY.  With a padY ending in a half the destination lies between
\* two pixel rows and the canvas resamples: smoothing gives each row the mean
\* of the two frame rows it covers half of (black beyond the frame's edge),
\* and without smoothing the frame lands half a row up or down.
CanvasPixel(x, y) ==
  LET padY2 == inputShape[3] - imageData.height
  IN CASE padY2 % 2 = 0 -> FramePixel(x, y - padY2 \div 2)
       [] sampling = "down" -> FramePixel(x, y - (padY2 + 1) \div 2)
       [] sampling = "up" -> FramePixel(x, y - (padY2 - 1) \div 2)
       [] OTHER ->
            LET above == FramePixel(x, y - (padY2 + 1) \div 2)
                below == FramePixel(x, y - (padY2 - 1) \div 2)
            IN [c \in 1..3 |-> (above[c] + below[c]) \div 2]

\* mean and std of PersonSegmentation.preprocessImage, in thousandths.
mean == <<485, 456, 406>>
std == <<229, 224, 225>>

\* The value stored for the byte v of channel c (counted from 0), as a
\* fraction: v / 255.0 for the detector, (v / 255.0 - mean[c]) / std[c] for
\* the segmentation.
Normalise(c, v) ==
  IF pipeline = "yolo"
    THEN [num |-> v, den |-> 255]
    ELSE [num |-> 1000 * v - 255 * mean[c + 1], den |-> 255 * std[c + 1]]

\* preprocessImage: `preprocessed[i + c * modelHeight * modelWidth]` is set
\* from `resizedData[i * 4 + c]`, i the pixel y * modelWidth + x.
preprocessImage ==
  LET channels == inputShape[2]
      modelHeight == inputShape[3]
      modelWidth == inputShape[4]
  IN [k \in 1..(channels * modelHeight * modelWidth) |->
        LET c == (k - 1) \div (modelHeight * modelWidth)
            i == (k - 1) % (modelHeight * modelWidth)
        IN Normalise(c, CanvasPixel(i % modelWidth, i \div modelWidth)[c + 1])]

\* ------------------------------------------------------------ specification
LifecycleInit ==
  /\ kind \in {"yolo", "seg"}
  /\ onStatusUpdate = "returns"
  /\ orphanCreates = 0
  /\ providers \in (IF kind = "seg" THEN ProviderLists ELSE {<<>>})
  /\ executionProvider \in ConfiguredProviders
  /\ session = NoSession
  /\ isWebGPU = FALSE
  /\ sessions = <<>>
  /\ calls = [c \in Slots |-> Idle]
  /\ overlapped = {}

\* The parts of the state a specification does not exercise.
LifecycleOff ==
  /\ kind = "yolo" /\ providers = <<>> /\ executionProvider = "webgl"
  /\ onStatusUpdate = "absent" /\ orphanCreates = 0
  /\ session = NoSession /\ isWebGPU = FALSE /\ sessions = <<>>
  /\ calls = [c \in Slots |-> Idle] /\ overlapped = {}

DecodeOff ==
  /\ output = [dims |-> <<>>, data |-> <<>>]
  /\ imageData = [width |-> 0, height |-> 0]
  /\ inputShape = <<>>
  /\ confidenceThreshold = 0
  /\ boxes = <<>>
  /\ detections = <<>>
  /\ stage = "off"

NmsOff == nmsBoxes = <<>> /\ nmsPasses = <<>>

MaskOff == threshold = 0 /\ croppedMask = <<>>

PrepOff ==
  pipeline = "off" /\ pixels = <<>> /\ sampling = "off" /\ preprocessed = <<>>

LoadOff ==
  /\ isReady = FALSE
  /\ detectorRef = NoPipeline /\ segmentationRef = NoPipeline
  /\ loads = [r \in Loads |-> "idle"]
  /\ holding = {} /\ disposeCalled = {}
  /\ isModelLoaded = FALSE /\ isModelLoading = FALSE

LoopOff ==
  /\ version = "off" /\ isDetecting = FALSE /\ animationIdRef = 0
  /\ pendingFrames = {} /\ detectCalls = 0 /\ segmentCalls = 0
  /\ appDetections = "empty" /\ segmentationMask = "null"

\* `iouThreshold: 0.45`, the value the application configures and the
\* default of nonMaxSuppression.
DefaultIouThreshold == [num |-> 9, den |-> 20]

Init ==
  LifecycleInit /\ DecodeOff /\ NmsOff /\ MaskOff /\ LoopOff /\ PrepOff /\ LoadOff
  /\ iouThreshold = DefaultIouThreshold

Next ==
  \E c \in Slots :
    \/ CallInitialize(c)
    \/ AdapterFound(c)
    \/ AdapterMissing(c)
    \/ CreateSucceeds(c)
    \/ CreateFails(c)
    \/ CleanupSettles(c)
    \/ CallDispose(c)
    \/ ReleaseSettles(c)
    \/ CallInfer(c)
    \/ RunSucceeds(c)
    \/ RunFails(c)

Spec == Init /\ [][Next]_vars

\* ------------------------------------------------- callback specification
\* initialize() under every behaviour of the status callback, on an instance
\* that is initialized again and again.
StatusInit ==
  /\ kind \in {"yolo", "seg"}
  /\ onStatusUpdate \in {"absent", "returns", "throws"}
  /\ orphanCreates = 0
  /\ providers \in (IF kind = "seg" THEN ProviderLists ELSE {<<>>})
  /\ executionProvider \in ConfiguredProviders
  /\ session = NoSession
  /\ isWebGPU = FALSE
  /\ sessions = <<>>
  /\ calls = [c \in Slots |-> Idle]
  /\ overlapped = {}

\* The caller awaits each initialize() before it makes the next, so every
\* call takes the first slot.
StatusNext ==
  \/ CallInitialize(1)
  \/ AdapterFound(1)
  \/ AdapterMissing(1)
  \/ CreateSucceeds(1)
  \/ CreateFails(1)
  \/ CleanupSettles(1)
  \/ OrphanCreateSettles

InitStatus ==
  StatusInit /\ DecodeOff /\ NmsOff /\ MaskOff /\ LoopOff /\ PrepOff /\ LoadOff
  /\ iouThreshold = DefaultIouThreshold

SpecStatus == InitStatus /\ [][StatusNext]_vars

\* --------------------------------------------------- decode specification
\* One candidate of the output tensor: cx, cy, w, h, then a score per class
\* (in hundredths), here with a score for Body (0) and Adult (1).
Row(cx, cy, w, h, body, adult) ==
  [k \in 1..(4 + Len(labels)) |->
     CASE k = 1 -> cx [] k = 2 -> cy [] k = 3 -> w [] k = 4 -> h
       [] k = 5 -> body [] k = 6 -> adult [] OTHER -> 0]

ZeroRow == Row(0, 0, 0, 0, 0, 0)

\* A second candidate in the middle of the frame, scoring Body at 0.8.
AnchorRow == Row(320, 320, 200, 200, 80, 0)

Layouts == {"box-major", "channel-major", "rank-2"}

\* The tensor holding the candidates `rows` in the given layout:
\* [1, num_boxes, num_classes + 4], [1, num_classes + 4, num_boxes], or the
\* box-major data with the batch dimension missing.
Tensor(layout, rows) ==
  LET N == Len(rows)
      K == Len(rows[1])
  IN [dims |-> CASE layout = "box-major" -> <<1, N, K>>
                 [] layout = "channel-major" -> <<1, K, N>>
                 [] OTHER -> <<N, K>>,
      data |-> [k \in 1..(N * K) |->
                  IF layout = "channel-major"
                    THEN rows[((k - 1) % N) + 1][((k - 1) \div N) + 1]
                    ELSE rows[((k - 1) \div K) + 1][((k - 1) % K) + 1]]]

\* The box count of the tensor of Scenario A, shape [1, 29, 100].
ScenarioBoxes == 100

\* The frames: the 640x480 capture (padY = 80) and one as tall as the model
\* input (padY = 0).
Frames == {[width |-> 640, height |-> 480], [width |-> 640, height |-> 640]}

DecodeInit ==
  /\ inputShape = <<1, 3, 640, 640>>
  /\ imageData \in Frames
  /\ confidenceThreshold \in {30, 50}
  /\ iouThreshold = DefaultIouThreshold
  /\ \E layout \in Layouts, cx \in {320, 700}, cy \in {20, 320}, size \in {40, 200},
        body \in {0, 30, 31, 90}, adult \in {0, 95}, anchor \in BOOLEAN :
       \E n \in (IF layout = "channel-major" THEN {NumBoxes, ScenarioBoxes}
                                             ELSE {NumBoxes}) :
         output = Tensor(layout,
                    [i \in 1..n |->
                       IF i = 1 THEN Row(cx, cy, size, size, body, adult)
                       ELSE IF i = 2 /\ anchor THEN AnchorRow
                       ELSE ZeroRow])
  /\ boxes = <<>>
  /\ detections = <<>>
  /\ stage = "input"

\* detect(): `const boxes = this.postprocess(output, imageData.width,
\* imageData.height)`.
Postprocess ==
  /\ stage = "input"
  /\ boxes' = Decoded(output, imageData.width, imageData.height)
  /\ detections' = postprocess(output, imageData.width, imageData.height)
  /\ stage' = "decoded"
  /\ UNCHANGED <<lifecycleVars, nmsVars, maskVars, loopVars, prepVars, loadVars, output, imageData, inputShape,
                 confidenceThreshold, iouThreshold>>

DecodeNext == Postprocess

InitDecode == DecodeInit /\ LifecycleOff /\ NmsOff /\ MaskOff /\ LoopOff /\ PrepOff /\ LoadOff

SpecDecode == InitDecode /\ [][DecodeNext]_vars

\* --------------------------------------------------- layout specification
\* Tensors of models with one to three classes and up to MaxLayoutBoxes
\* boxes, so that the box count is below, or above, the channel count.
\* The candidates are all alike but one.
LayoutRows(classes) ==
  {geometry \o scores :
     geometry \in {<<320, 320, 200, 200>>, <<100, 20, 40, 40>>},
     scores \in [1..classes -> {0, 90}]}

LayoutInit ==
  /\ inputShape = <<1, 3, 640, 640>>
  /\ imageData \in Frames
  /\ confidenceThreshold = 30
  /\ iouThreshold = DefaultIouThreshold
  /\ \E layout \in {"box-major", "channel-major"}, classes \in 1..3, N \in 1..MaxLayoutBoxes :
       /\ N # 4 + classes
       /\ \E others \in {[k \in 1..(4 + classes) |-> 0], [k \in 1..(4 + classes) |-> 90]},
             one \in LayoutRows(classes), at \in {1, N} :
            output = Tensor(layout, [i \in 1..N |-> IF i = at THEN one ELSE others])
  /\ boxes = <<>>
  /\ detections = <<>>
  /\ stage = "input"

LayoutNext == Postprocess

InitLayout == LayoutInit /\ LifecycleOff /\ NmsOff /\ MaskOff /\ LoopOff /\ PrepOff /\ LoadOff

SpecLayout == InitLayout /\ [][LayoutNext]_vars

\* ---------------------------------------------- suppression specification
\* Corner coordinates of the boxes handed to nonMaxSuppression: three boxes
\* in a row, each overlapping the next by three quarters; a box of no
\* extent; a box with x1 > x2, as the decode can produce.
NmsGeometry ==
  {<<0, 0, 4, 4>>, <<1, 0, 5, 4>>, <<2, 0, 6, 4>>, <<2, 2, 2, 2>>, <<4, 0, 0, 4>>}

NmsInputBoxes ==
  {Box(g[1], g[2], g[3], g[4], confidence, class, Label(class)) :
     g \in NmsGeometry, confidence \in {50, 90}, class \in {0, 7}}

BoxLists == UNION {[1..n -> NmsInputBoxes] : n \in 0..MaxBoxes}

NmsInit ==
  /\ nmsBoxes \in BoxLists
  /\ nmsPasses = <<>>
  /\ iouThreshold \in {DefaultIouThreshold, [num |-> 13, den |-> 20]}

\* nonMaxSuppression(B, tau)
Suppress ==
  /\ nmsPasses = <<>>
  /\ nmsPasses' = <<nonMaxSuppression(nmsBoxes, iouThreshold)>>
  /\ UNCHANGED <<lifecycleVars, decodeVars, maskVars, loopVars, prepVars, loadVars, nmsBoxes>>

\* nonMaxSuppression applied to its own result.
SuppressAgain ==
  /\ Len(nmsPasses) = 1
  /\ nmsPasses' = Append(nmsPasses, nonMaxSuppression(nmsPasses[1], iouThreshold))
  /\ UNCHANGED <<lifecycleVars, decodeVars, maskVars, loopVars, prepVars, loadVars, nmsBoxes>>

NmsNext == Suppress \/ SuppressAgain

InitNMS == NmsInit /\ LifecycleOff /\ DecodeOff /\ MaskOff /\ LoopOff /\ PrepOff /\ LoadOff

SpecNMS == InitNMS /\ [][NmsNext]_vars

\* ----------------------------------------------- frame loop specification
\* The models are loaded, the video element and the canvas exist, and the
\* button reads 'Start Detection'.
LoopInit ==
  /\ version \in {"current", "earlier"}
  /\ isDetecting = FALSE
  /\ animationIdRef = NoFrame
  /\ pendingFrames = {}
  /\ detectCalls = 0 /\ segmentCalls = 0
  /\ appDetections = "empty" /\ segmentationMask = "null"

LoopNext ==
  \/ startDetection
  \/ stopDetection
  \/ AnimationFrame
  \/ DetectSettles
  \/ SegmentSettles

InitLoop ==
  LoopInit /\ LifecycleOff /\ DecodeOff /\ NmsOff /\ MaskOff /\ PrepOff /\ LoadOff
  /\ iouThreshold = DefaultIouThreshold

SpecLoop == InitLoop /\ [][LoopNext]_vars

\* -------------------------------------------- model loading specification
\* The application is mounted, the webcam is not ready yet, and nothing
\* was loaded.
LoadInit ==
  /\ version \in {"current", "earlier"}
  /\ isDetecting = FALSE /\ animationIdRef = NoFrame
  /\ pendingFrames = {} /\ detectCalls = 0 /\ segmentCalls = 0
  /\ appDetections = "empty" /\ segmentationMask = "null"
  /\ LoadOff

LoadNext ==
  \/ EffectRuns
  \/ \E r \in Loads : Resume(r)

InitLoad ==
  LoadInit /\ LifecycleOff /\ DecodeOff /\ NmsOff /\ MaskOff /\ PrepOff
  /\ iouThreshold = DefaultIouThreshold

SpecLoad == InitLoad /\ [][LoadNext]_vars

\* ----------------------------------------------- preprocess specification
\* The colours of a frame: one pixel of the first colour among pixels of the
\* second.
Colours == {<<200, 100, 60>>, <<20, 40, 80>>, Black}

PrepInit ==
  /\ pipeline \in {"yolo", "seg"}
  /\ \E modelHeight \in 2..MaxSide, modelWidth \in 2..MaxSide :
       /\ inputShape = <<1, 3, modelHeight, modelWidth>>
       /\ \E width \in 1..modelWidth, height \in 1..modelHeight :
            /\ imageData = [width |-> width, height |-> height]
            /\ \E at \in 1..(width * height), one \in Colours \ {Black} :
                 \E others \in Colours \ {one} :
                   pixels = [k \in 1..(width * height) |-> IF k = at THEN one ELSE others]
            /\ sampling \in (IF (modelHeight - height) % 2 = 0
                               THEN {"exact"} ELSE {"smooth", "down", "up"})
  /\ output = [dims |-> <<>>, data |-> <<>>]
  /\ confidenceThreshold = 0
  /\ boxes = <<>> /\ detections = <<>>
  /\ preprocessed = <<>>
  /\ stage = "input"

\* detect() / segment(): `const preprocessed = this.preprocessImage(imageData)`.
Preprocess ==
  /\ stage = "input"
  /\ preprocessed' = preprocessImage
  /\ stage' = "preprocessed"
  /\ UNCHANGED <<lifecycleVars, nmsVars, maskVars, loopVars, loadVars, pipeline, pixels, sampling,
                 output, imageData, inputShape, confidenceThreshold, iouThreshold,
                 boxes, detections>>

PrepNext == Preprocess

InitPrep ==
  PrepInit /\ LifecycleOff /\ NmsOff /\ MaskOff /\ LoopOff /\ LoadOff
  /\ iouThreshold = DefaultIouThreshold

SpecPrep == InitPrep /\ [][PrepNext]_vars

\* ----------------------------------------------------- mask specification
\* The activation that is at the threshold or above, and the one below.
Activations == {0, 1, 2}

\* The output of the segmentation model, dims [1, 1, modelHeight,
\* modelWidth]: one pixel holds the activation hot, every other pixel cold.
MaskTensor(modelHeight, modelWidth, at, hot, cold) ==
  [dims |-> <<1, 1, modelHeight, modelWidth>>,
   data |-> [k \in 1..(modelHeight * modelWidth) |-> IF k = at THEN hot ELSE cold]]

MaskInit ==
  /\ threshold = 1
  /\ \E modelHeight \in 2..MaxSide, modelWidth \in 2..MaxSide :
       /\ \E at \in 1..(modelHeight * modelWidth), hot \in Activations, cold \in Activations :
            output = MaskTensor(modelHeight, modelWidth, at, hot, cold)
       /\ \E width \in 1..modelWidth, height \in 1..modelHeight :
            imageData = [width |-> width, height |-> height]
  /\ inputShape = <<>> /\ confidenceThreshold = 0
  /\ boxes = <<>> /\ detections = <<>>
  /\ croppedMask = <<>>
  /\ stage = "input"

\* segment(): from `const output = outputs[...]` to `return croppedMask`.
CropMask ==
  /\ stage = "input"
  /\ croppedMask' = Cropped(output, imageData.width, imageData.height)
  /\ stage' = "segmented"
  /\ UNCHANGED <<lifecycleVars, nmsVars, loopVars, prepVars, loadVars, threshold, output, imageData, inputShape,
                 confidenceThreshold, iouThreshold, boxes, detections>>

MaskNext == CropMask

InitMask ==
  MaskInit /\ LifecycleOff /\ NmsOff /\ LoopOff /\ PrepOff /\ LoadOff /\ iouThreshold = DefaultIouThreshold

SpecMask == InitMask /\ [][MaskNext]_vars

\* ================================================================= claims
InitCalls == {c \in Slots : calls[c].op = "initialize"}
DisposeCalls == {c \in Slots : calls[c].op = "dispose"}
InferCalls == {c \in Slots : calls[c].op = "infer"}

\* Call c settles in this step.
Settles(c) == calls[c].pc # "done" /\ calls'[c].pc = "done"
\* A call of method op starts in slot c in this step.
Starts(c, op) == Free(c) /\ calls'[c] # calls[c] /\ calls'[c].op = op

\* The candidates an initialize call goes through: the loop's list, and for
\* the detector the one configured provider handed to InferenceSession.create.
Candidates == IF kind = "yolo" THEN <<executionProvider>> ELSE providers

\* C1 (as claimed): after any sequence of initialize() and dispose() calls,
\* none overlapping another, at most one session created by the instance has
\* not been released.
C1_AtMostOneLiveSession == overlapped = {} => Cardinality(Live) <= 1

\* C2: however dispose() calls follow or overlap one another, none rejects
\* and dispose() invokes release() at most once on a session; unless an
\* initialize() ran concurrently with another call, release() is invoked at
\* most once on a session altogether.
C2_DisposeIdempotent ==
  /\ \A c \in DisposeCalls : calls[c].pc = "done" => calls[c].result = "resolved"
  /\ \A s \in 1..Len(sessions) :
       /\ sessions[s].byDispose <= 1
       /\ "initialize" \notin overlapped => Releases(s) <= 1

\* Two dispose() calls overlapped: the first still awaits release(), the
\* second found nothing to release and has resolved.
C2_Witness ==
  \E c, d \in Slots :
    /\ calls[c].op = "dispose" /\ calls[c].pc = "release"
    /\ calls[d].op = "dispose" /\ calls[d].pc = "done"
    /\ calls[d].tempSession = NoSession
    /\ overlapped = {"dispose"}
    /\ Releases(calls[c].tempSession) = 1

\* What getActiveProvider() would return had no backend been recorded.
Unset == ""

C4_NotInitializedRejects ==
  [][\A c \in Slots :
       (Starts(c, "infer") /\ session = NoSession)
       => /\ calls'[c].pc = "done"
          /\ calls'[c].result = "rejected"
          /\ calls'[c].error = Error("NotInitialized", 0)
          /\ ~calls'[c].preprocessed
          /\ calls'[c].runs = <<>>]_vars

\* detect()/segment() was called while initialize() had not resolved yet.
C4_Witness ==
  \E c, d \in Slots :
    /\ calls[c].op = "infer" /\ calls[c].error = Error("NotInitialized", 0)
    /\ calls[d].op = "initialize" /\ calls[d].pc = "create"
    /\ sessions = <<>>

GpuBackends == {"webnn", "webgpu", "webgl"}

\* C6 (as claimed): on a GPU backend a call whose run failed was retried
\* once, so it rejects with a run error only after two runs, the first with
\* the reduced-logging options and the second with the default ones.
C6_RetryOnEveryGpuBackend ==
  \A c \in InferCalls :
    (calls[c].provider \in GpuBackends /\ calls[c].result = "rejected"
       /\ calls[c].error.why = "run")
    => calls[c].runs = <<"reduced", "default">>

\* C6 (amended): the reduced-logging run and its single retry with default
\* options are taken exactly when config.executionProvider is webgpu
\* (detect) or webgpu/webnn (segment), and the retry is issued provided the
\* instance still holds a session when the first run fails; a second failure
\* is the call's error.  On webgl and wasm the call issues exactly one run,
\* with default options, and its failure is the call's error.  No call
\* issues more than two runs.
C6_RetryOnceOnRunOptionsPath ==
  \A c \in InferCalls :
    LET r == calls[c] IN
    /\ r.preprocessed => r.gpuPath = (r.provider \in RetryProviders)
    /\ r.runs \in {<<>>, <<"default">>, <<"reduced">>, <<"reduced", "default">>}
    /\ r.preprocessed => r.runs # <<>> /\ (r.gpuPath = (r.runs[1] = "reduced"))
    /\ r.pc = "run1" => Len(r.runs) = 1
    /\ r.pc = "run2" => Len(r.runs) = 2
    /\ (r.result = "rejected" /\ r.error.why = "run") =>
         /\ r.error.at = Len(r.runs)
         /\ Len(r.runs) = IF r.gpuPath THEN 2 ELSE 1
    /\ (r.result = "rejected" /\ r.error.why = "TypeError" /\ Len(r.runs) = 1 /\ r.gpuPath)
         => (session = NoSession \/ overlapped # {})

\* Both runs of a call on the retry path failed: the second error surfaced.
C6_Witness ==
  \E c \in InferCalls :
    /\ calls[c].gpuPath
    /\ calls[c].runs = <<"reduced", "default">>
    /\ calls[c].result = "rejected" /\ calls[c].error = Error("run", 2)
    /\ overlapped = {}

\* The boxes of a decode: those it built and those it returned.
Emitted == {boxes[k] : k \in 1..Len(boxes)} \cup {detections[k] : k \in 1..Len(detections)}

\* C7 (as claimed): every box the decode produces lies inside the frame with
\* its corners in order, 0 <= x1 <= x2 <= origW and 0 <= y1 <= y2 <= origH
\* (coordinates in half pixels).
C7_BoxesWithinFrame ==
  stage = "decoded" =>
    \A b \in Emitted :
      /\ 0 <= b.x1 /\ b.x1 <= b.x2 /\ b.x2 <= 2 * imageData.width
      /\ 0 <= b.y1 /\ b.y1 <= b.y2 /\ b.y2 <= 2 * imageData.height

\* C8: every box of the decode, before and after suppression, has a
\* confidence strictly above config.confidenceThreshold.
C8_ConfidenceAboveThreshold ==
  stage = "decoded" => \A b \in Emitted : b.confidence > confidenceThreshold

\* The candidates of the tensor, counted from 0, and the scores of one.
Rows == IF Len(output.dims) = 3 THEN 0..(numBoxes(output) - 1) ELSE {}
ScoresOf(i) == classScores(output, i)
\* The maximal score of candidate i and the lowest class index that has it.
MaxScore(i) ==
  CHOOSE m \in {ScoresOf(i)[c] : c \in DOMAIN ScoresOf(i)} :
    \A c \in DOMAIN ScoresOf(i) : ScoresOf(i)[c] <= m
ArgMax(i) ==
  CHOOSE c \in 0..(Len(ScoresOf(i)) - 1) :
    /\ ScoresOf(i)[c + 1] = MaxScore(i)
    /\ \A d \in 0..(c - 1) : ScoresOf(i)[d + 1] < MaxScore(i)

\* The first candidate scores exactly the threshold and is discarded; the
\* anchor candidate, above the threshold, is the one box.
C8_Witness ==
  /\ stage = "decoded"
  /\ Rows # {}
  /\ MaxScore(0) = confidenceThreshold /\ ArgMax(0) = 0
  /\ Len(boxes) = 1 /\ boxes[1].confidence = 80
  /\ detections = boxes

\* C9: no box of the decode has a class in the excluded set, and the filter
\* looks at the class with the maximal score: the decode builds one box per
\* candidate whose maximal score is above the threshold and whose maximal
\* class is not excluded, carrying that class and score, and none for any
\* other candidate.
C9_ExcludedBestClassDropped ==
  stage = "decoded" =>
    /\ \A b \in Emitted :
         /\ b.class \notin excludedClassIds
         /\ \E i \in Rows : b.class = ArgMax(i) /\ b.confidence = MaxScore(i)
    /\ Len(boxes) = Cardinality({i \in Rows : /\ MaxScore(i) > confidenceThreshold
                                              /\ ArgMax(i) \notin excludedClassIds})

\* The only candidate with scores has Adult (excluded) as its best class at
\* 0.95 and Body at 0.9, above the threshold: the decode returns nothing.
C9_Witness ==
  /\ stage = "decoded"
  /\ Rows # {}
  /\ ArgMax(0) = 1 /\ MaxScore(0) = 95
  /\ ScoresOf(0)[1] = 90 /\ ScoresOf(0)[1] > confidenceThreshold
  /\ \A i \in Rows \ {0} : MaxScore(i) = 0
  /\ boxes = <<>> /\ detections = <<>>

\* C10: nonMaxSuppression applied to its own result returns that result:
\* the same boxes in the same order.
C10_SuppressionIdempotent ==
  Len(nmsPasses) = 2 => nmsPasses[2] = nmsPasses[1]

\* The list is a chain of three boxes of one class, the last two tying in
\* confidence: the first suppresses the second, which would have suppressed
\* the third; the first and the third are returned, by both passes.
C10_Witness ==
  /\ Len(nmsPasses) = 2
  /\ Len(nmsBoxes) = 3
  /\ nmsBoxes[1].class = nmsBoxes[2].class /\ nmsBoxes[2].class = nmsBoxes[3].class
  /\ nmsBoxes[1].confidence > nmsBoxes[2].confidence
  /\ nmsBoxes[2].confidence = nmsBoxes[3].confidence
  /\ ~LessThan(calculateIoU(nmsBoxes[1], nmsBoxes[2]), iouThreshold)
  /\ ~LessThan(calculateIoU(nmsBoxes[2], nmsBoxes[3]), iouThreshold)
  /\ LessThan(calculateIoU(nmsBoxes[1], nmsBoxes[3]), iouThreshold)
  /\ nmsPasses[1] = <<nmsBoxes[1], nmsBoxes[3]>>
  /\ nmsPasses[2] = nmsPasses[1]

\* The list nonMaxSuppression returned, and the positions in a list bs.
Suppressed == nmsPasses[1]
Positions(bs) == 1..Len(bs)

\* C11: any two boxes of the same class in the list nonMaxSuppression
\* returned have IoU below the threshold, in either order.
C11_RetainedSameClassBelowThreshold ==
  Len(nmsPasses) >= 1 =>
    \A i, j \in Positions(Suppressed) :
      (i # j /\ Suppressed[i].class = Suppressed[j].class)
      => LessThan(calculateIoU(Suppressed[i], Suppressed[j]), iouThreshold)

\* Three boxes of one class were handed over, the second overlapping the
\* first at or above the threshold: two are returned, and they overlap below
\* the threshold with a non-empty intersection.
C11_Witness ==
  /\ Len(nmsPasses) >= 1
  /\ Len(nmsBoxes) = 3 /\ Len(Suppressed) = 2
  /\ \A i \in Positions(nmsBoxes) : nmsBoxes[i].class = nmsBoxes[1].class
  /\ ~LessThan(calculateIoU(nmsBoxes[1], nmsBoxes[2]), iouThreshold)
  /\ calculateIoU(Suppressed[1], Suppressed[2]).num > 0

\* The boxes of class c in the list bs, in the order of bs.
OfClass(bs, c) == SelectSeq(bs, LAMBDA box : box.class = c)

\* C12: for every class c, the boxes of class c in the result are the
\* result of nonMaxSuppression on the boxes of class c of the input: no box
\* is removed because of a box of another class.
C12_ClassScoped ==
  Len(nmsPasses) >= 1 =>
    \A c \in {nmsBoxes[i].class : i \in Positions(nmsBoxes)} :
      OfClass(Suppressed, c) = nonMaxSuppression(OfClass(nmsBoxes, c), iouThreshold)

\* Two boxes with the same corners (IoU 1) and different classes: both are
\* returned.
C12_Witness ==
  /\ Len(nmsPasses) >= 1
  /\ Len(nmsBoxes) = 2 /\ Len(Suppressed) = 2
  /\ nmsBoxes[1].class # nmsBoxes[2].class
  /\ calculateIoU(nmsBoxes[1], nmsBoxes[2]) = [num |-> 16, den |-> 16]
  /\ nmsBoxes[1].confidence > nmsBoxes[2].confidence

\* `q >= t` on numbers, for q and t as in LessThan: NaN (0 / 0) is not at
\* least anything.
AtLeast(q, t) ==
  IF q.den > 0 THEN q.num * t.den >= t.num * q.den
  ELSE IF q.den < 0 THEN q.num * t.den <= t.num * q.den
  ELSE q.num > 0

\* The positions of bs in descending-confidence order, ties in the order of
\* bs.
RankOrder(bs) ==
  CHOOSE p \in [Positions(bs) -> Positions(bs)] :
    \A k, l \in Positions(bs) :
      k < l => \/ bs[p[k]].confidence > bs[p[l]].confidence
               \/ /\ bs[p[k]].confidence = bs[p[l]].confidence
                  /\ p[k] < p[l]

\* The positions retained by greedy suppression as the claim states it,
\* going through the ranking from place k on: a box is left out exactly when
\* a box of its class retained before it has IoU >= tau with it.
RECURSIVE GreedyFrom(_, _, _, _)
GreedyFrom(bs, tau, k, kept) ==
  IF k > Len(bs) THEN kept
  ELSE LET i == RankOrder(bs)[k]
           out == \E n \in Positions(kept) :
                    /\ bs[kept[n]].class = bs[i].class
                    /\ AtLeast(calculateIoU(bs[kept[n]], bs[i]), tau)
       IN GreedyFrom(bs, tau, k + 1, IF out THEN kept ELSE Append(kept, i))

Greedy(bs, tau) ==
  LET kept == GreedyFrom(bs, tau, 1, <<>>) IN [n \in Positions(kept) |-> bs[kept[n]]]

\* C13 (as claimed): nonMaxSuppression returns, in descending-confidence
\* order, exactly the boxes for which no retained box of the same class
\* ranked before them has IoU >= threshold with them.
C13_GreedyAtLeastThreshold ==
  Len(nmsPasses) >= 1 => Suppressed = Greedy(nmsBoxes, iouThreshold)

\* C14: calculateIoU gives the same value for (a, b) and (b, a), and for a
\* box of positive width and height IoU(a, a) is 1 (the intersection area
\* equals the union area, which is positive).
C14_IoUSymmetricAndReflexive ==
  \A i, j \in Positions(nmsBoxes) :
    LET a == nmsBoxes[i]
        b == nmsBoxes[j]
    IN /\ calculateIoU(a, b) = calculateIoU(b, a)
       /\ (a.x2 > a.x1 /\ a.y2 > a.y1) =>
            /\ calculateIoU(a, a).num = calculateIoU(a, a).den
            /\ calculateIoU(a, a).den > 0

\* nonMaxSuppression has compared two different boxes of one class that
\* overlap in part, and a box with itself.
C14_Witness ==
  /\ Len(nmsPasses) >= 1
  /\ Len(nmsBoxes) = 3
  /\ nmsBoxes[1].class = nmsBoxes[2].class
  /\ calculateIoU(nmsBoxes[1], nmsBoxes[2]) = [num |-> 12, den |-> 20]
  /\ calculateIoU(nmsBoxes[2], nmsBoxes[1]) = [num |-> 12, den |-> 20]
  /\ nmsBoxes[3] = nmsBoxes[1]
  /\ calculateIoU(nmsBoxes[1], nmsBoxes[3]) = [num |-> 16, den |-> 16]

\* v clamped to [lo, hi].
Clamp(v, lo, hi) == Max(lo, Min(hi, v))

\* The hypotheses of Scenario A: model input 640x640, a 640x480 frame, a
\* tensor of shape [1, 29, 100] in which candidate 0 scores Body at 0.9 and
\* no other score of any candidate exceeds the threshold.
ScenarioA ==
  /\ inputShape = <<1, 3, 640, 640>>
  /\ imageData = [width |-> 640, height |-> 480]
  /\ output.dims = <<1, 4 + Len(labels), ScenarioBoxes>>
  /\ ScoresOf(0)[1] = 90
  /\ \A i \in Rows, c \in 1..Len(labels) :
       (i # 0 \/ c # 1) => ScoresOf(i)[c] <= confidenceThreshold

\* C15 (as claimed): in Scenario A the decode returns exactly one box,
\* labelled "Body", of class 0 and confidence 0.9, whose y1 and y2 are the
\* model-space values cy - h / 2 and cy + h / 2 minus 80, clamped to
\* [0, 480] (in half pixels: minus 160, clamped to [0, 960]).
C15_ScenarioA ==
  (stage = "decoded" /\ ScenarioA) =>
    /\ Len(detections) = 1
    /\ detections[1].label = "Body"
    /\ detections[1].class = 0
    /\ detections[1].confidence = 90
    /\ detections[1].y1 =
         Clamp(2 * Value(output, 0, 1) - Value(output, 0, 3) - 160, 0, 960)
    /\ detections[1].y2 =
         Clamp(2 * Value(output, 0, 1) + Value(output, 0, 3) - 160, 0, 960)

\* C16: the decode of a tensor whose rank is not 3 builds and returns the
\* empty list, and leaves the session and the configuration as they were.
C16_UnexpectedRankYieldsNothing ==
  [][(stage = "input" /\ stage' = "decoded" /\ Len(output.dims) # 3)
       => /\ boxes' = <<>>
          /\ detections' = <<>>
          /\ UNCHANGED <<session, executionProvider, isWebGPU, sessions,
                         inputShape, confidenceThreshold, iouThreshold>>]_vars

\* A rank-2 tensor whose first candidate (read box-major) scores Body at
\* 0.9 was decoded: nothing was returned.
C16_Witness ==
  /\ stage = "decoded"
  /\ Len(output.dims) = 2
  /\ output.data[5] = 90 /\ output.data[5] > confidenceThreshold
  /\ boxes = <<>> /\ detections = <<>>

\* The activation of the model output at model pixel (x, y).
ActivationAt(x, y) == output.data[y * output.dims[4] + x + 1]

\* C17 (as claimed): segment() returns width * height bytes, each 0 or 255,
\* and the byte of frame pixel (x, y) is 255 exactly when the activation at
\* model pixel (x, y + padY) is at or above the threshold, padY being
\* (modelHeight - height) / 2, rounded either way when the difference is odd.
C17_MaskMatchesActivation ==
  stage = "segmented" =>
    LET width == imageData.width
        height == imageData.height
        diff == output.dims[3] - height
    IN /\ Len(croppedMask) = width * height
       /\ \A d \in 1..Len(croppedMask) : croppedMask[d] \in {0, 255}
       /\ \E padY \in {diff \div 2, (diff + 1) \div 2} :
            \A x \in 0..(width - 1), y \in 0..(height - 1) :
              (croppedMask[y * width + x + 1] = 255)
                <=> (ActivationAt(x, y + padY) >= threshold)


\* The lifecycle state of the instance, read off its fields and its calls:
\* Initializing while an initialize() call is in flight, else Ready while it
\* holds a session, else Empty (Uninitialized, Failed or Disposed).
Initializing == \E c \in Slots : calls[c].op = "initialize" /\ InFlight(c)
Ready == ~Initializing /\ session # NoSession

\* initialize() starts only on an instance that is not Initializing and
\* not Ready.
InitializeFromEmpty ==
  \A c \in Slots : Starts(c, "initialize") => ~Initializing /\ session = NoSession

\* dispose() does not start on an instance that is Initializing.
DisposeNotWhileInitializing ==
  \A c \in Slots : Starts(c, "dispose") => ~Initializing

\* When dispose() has started the instance holds no session, and a call of
\* detect()/segment() on an instance without session rejects as not
\* initialized.
DisposedHoldsNothing ==
  /\ \A c \in Slots : Starts(c, "dispose") => session' = NoSession
  /\ \A c \in Slots :
       Starts(c, "infer") /\ session = NoSession =>
         /\ calls'[c].result = "rejected"
         /\ calls'[c].error = Error("NotInitialized", 0)

\* The instance comes to hold a session only as an initialize() call
\* settles, and that session is one InferenceSession.create made in this
\* step, on which release() was never invoked.
FreshSession ==
  session' # session /\ session' # NoSession =>
    /\ \E c \in Slots : calls[c].op = "initialize" /\ Settles(c)
    /\ session' \notin 1..Len(sessions)
    /\ session' \in 1..Len(sessions')
    /\ sessions'[session'] = [byDispose |-> 0, byInit |-> 0]

\* C18 (as claimed): the instance moves only along Uninitialized ->
\* Initializing -> {Ready | Failed} and Ready -> Disposed (and from Disposed
\* to Initializing again), so initialize() never starts on an instance that
\* is Initializing or Ready and dispose() never on one that is Initializing;
\* after dispose() the instance holds no session and detect()/segment()
\* reject as not initialized; a session the instance comes to hold is a new
\* one, never a released one.
C18_LifecycleOrder ==
  [][/\ InitializeFromEmpty
     /\ DisposeNotWhileInitializing
     /\ DisposedHoldsNothing
     /\ FreshSession]_vars


\* The record of a dispose() call whose release() failed.
ReleaseFailed(r) == r.op = "dispose" /\ r.lastError = Error("release", 0)

\* C19: a dispose() whose release() fails still resolves; when no call
\* overlapped another the instance holds no session as it settles; and an
\* initialize() made next is not blocked: it can be called, it starts on its
\* first candidate and carries no error.
C19_ReleaseFailureSwallowed ==
  [][\A c \in Slots :
       /\ Settles(c) /\ ReleaseFailed(calls'[c]) =>
            /\ calls'[c].result = "resolved"
            /\ calls'[c].error = NoError
            /\ overlapped = {} => session' = NoSession
       /\ calls[c].pc = "done" /\ ReleaseFailed(calls[c]) /\ overlapped = {}
            /\ Len(sessions) < MaxSessions =>
            ENABLED CallInitialize(c)
       /\ calls[c].pc = "done" /\ ReleaseFailed(calls[c]) /\ Starts(c, "initialize") =>
            /\ calls'[c].pc \in {"create", "adapter"}
            /\ calls'[c].i = 1
            /\ calls'[c].lastError = NoError]_vars

\* A dispose() on an instance holding a session has settled after its
\* release() failed, no call having overlapped another.
C19_Witness ==
  \E c \in Slots :
    /\ calls[c].pc = "done" /\ ReleaseFailed(calls[c])
    /\ calls[c].tempSession # NoSession
    /\ calls[c].result = "resolved"
    /\ session = NoSession
    /\ overlapped = {}


\* C20 (as claimed): in the frame loop at most one detect() call and at
\* most one segment() call is in flight on the App's instances at any time.
C20_OneInferenceInFlight == detectCalls <= 1 /\ segmentCalls <= 1


\* The loop of call c goes on in this step from candidate calls[c].i: the
\* next candidate of the list is tried, or past the last one the call
\* rejects.
Proceeds(c) ==
  IF calls[c].i < Len(providers)
    THEN /\ Len(calls'[c].tried) > Len(calls[c].tried)
         /\ calls'[c].tried[Len(calls[c].tried) + 1] = providers[calls[c].i + 1]
    ELSE calls'[c].pc = "done" /\ calls'[c].result = "rejected"

\* Candidate calls[c].i of initialize call c fails in this step, at one of
\* its awaits or in what follows it.
CandidateFails(c) ==
  /\ calls[c].op = "initialize" /\ calls[c].pc \in {"adapter", "create"}
  /\ calls'[c].lastError # calls[c].lastError
  /\ calls'[c].lastError.at = calls[c].i

\* C21: when a candidate of PersonSegmentation.initialize fails (no
\* adapter, create rejected, or a throw after the session was assigned) the
\* error is recorded as the last error; a session the instance holds at
\* that point has release() invoked on it before any further candidate is
\* tried, and when the release has settled, whether it failed or not, the
\* reference is cleared and the loop goes on to the next candidate; with no
\* session held the loop goes on at once.
C21_FailedCandidateCleanedUp ==
  [][kind = "seg" =>
       \A c \in Slots :
         /\ CandidateFails(c) =>
              LET held == IF calls[c].pc = "create" /\ Len(sessions') > Len(sessions)
                            THEN session' ELSE session
              IN /\ calls'[c].lastError.why \in {"adapter", "create", "status"}
                 /\ IF held # NoSession
                      THEN /\ calls'[c].pc = "cleanup"
                           /\ calls'[c].tried = calls[c].tried
                           /\ session' = held
                           /\ sessions'[held].byInit =
                                (IF held \in 1..Len(sessions)
                                   THEN sessions[held].byInit ELSE 0) + 1
                      ELSE Proceeds(c)
         /\ calls[c].pc = "cleanup" /\ calls'[c] # calls[c] =>
              /\ session' = NoSession
              /\ calls'[c].lastError # NoError
              /\ Proceeds(c)]_vars

\* An initialize() of PersonSegmentation has resolved on its second
\* candidate after the first failed with a session held, which the catch
\* block released.
C21_Witness ==
  /\ kind = "seg"
  /\ \E c \in Slots :
       /\ calls[c].op = "initialize" /\ calls[c].result = "resolved"
       /\ calls[c].i = 2 /\ calls[c].lastError.at = 1
       /\ session = 2 /\ sessions[1].byInit = 1


\* The tensor that holds the per-box values of out in the other layout:
\* [1, b, a] for [1, a, b], value k of box i moved from i * b + k to
\* k * a + i.
OtherLayout(out) ==
  LET a == out.dims[2]
      b == out.dims[3]
  IN [dims |-> <<1, b, a>>,
      data |-> [j \in 1..(a * b) |->
                  out.data[((j - 1) % a) * b + ((j - 1) \div a) + 1]]]

\* C22: for a rank-3 output with unequal non-batch dimensions the larger
\* one is the box count and the other one 4 + numClasses, and the tensor
\* holding the same per-box values in the other layout decodes to the same
\* list of boxes.
C22_LayoutsDecodeAlike ==
  stage = "decoded" /\ Len(output.dims) = 3 /\ output.dims[2] # output.dims[3] =>
    /\ numBoxes(output) = Max(output.dims[2], output.dims[3])
    /\ numClasses(output) + 4 = Min(output.dims[2], output.dims[3])
    /\ boxes = Decoded(OtherLayout(output), imageData.width, imageData.height)
    /\ detections = postprocess(OtherLayout(output), imageData.width, imageData.height)

\* A tensor [1, a, b] with a < b, read as [1, num_classes + 4, num_boxes]
\* while the one in the other layout is read as [1, num_boxes,
\* num_classes + 4], has been decoded to a list that is not empty.
C22_Witness ==
  /\ stage = "decoded" /\ Len(output.dims) = 3
  /\ output.dims[2] < output.dims[3]
  /\ output.dims[3] <= MaxLayoutBoxes
  /\ detections # <<>>
  /\ isTransposed(output) /\ ~isTransposed(OtherLayout(output))


\* The candidates whose maximal score is above the threshold and whose
\* lowest class with that score is not excluded, in index order.
Chosen ==
  IF Len(output.dims) = 3 /\ numClasses(output) >= 1
    THEN SelectSeq([k \in 1..numBoxes(output) |-> k - 1],
                   LAMBDA i : MaxScore(i) > confidenceThreshold
                                /\ ArgMax(i) \notin excludedClassIds)
    ELSE <<>>

\* C23: the list the decode builds holds one box per chosen candidate, and
\* the box carries the candidate's maximal score as its confidence, the
\* lowest class index with that score as its class and the entry of the
\* label table at that index as its label.
C23_BestClassIsFirstMaximum ==
  stage = "decoded" =>
    /\ Len(boxes) = Len(Chosen)
    /\ \A k \in 1..Len(boxes) :
         /\ boxes[k].confidence = MaxScore(Chosen[k])
         /\ boxes[k].class = ArgMax(Chosen[k])
         /\ boxes[k].class \in 0..(Len(labels) - 1)
         /\ boxes[k].label = labels[ArgMax(Chosen[k]) + 1]
    /\ \A d \in 1..Len(detections) : \E k \in 1..Len(boxes) : detections[d] = boxes[k]

\* A candidate scoring 0.9 for Body and for Adult has been decoded to a box
\* of class 0, labelled Body.
C23_Witness ==
  /\ stage = "decoded"
  /\ \E k \in 1..Len(boxes) :
       /\ ScoresOf(Chosen[k])[1] = 90
       /\ Len(ScoresOf(Chosen[k])) >= 2
       /\ ScoresOf(Chosen[k])[2] = 90
       /\ boxes[k].class = 0 /\ boxes[k].label = "Body" /\ boxes[k].confidence = 90


\* Two boxes overlap when their interiors meet.
Overlap(a, b) ==
  /\ Max(a.x1, b.x1) < Min(a.x2, b.x2)
  /\ Max(a.y1, b.y1) < Min(a.y2, b.y2)

\* C24 (as claimed): for every pair of boxes calculateIoU is a number in
\* [0, 1], that is a quotient with a positive divisor and a dividend
\* between 0 and the divisor, and it is 0 when the boxes do not overlap.
C24_IoUInUnitInterval ==
  \A i \in 1..Len(nmsBoxes), j \in 1..Len(nmsBoxes) :
    LET q == calculateIoU(nmsBoxes[i], nmsBoxes[j]) IN
    /\ q.den > 0
    /\ 0 <= q.num /\ q.num <= q.den
    /\ ~Overlap(nmsBoxes[i], nmsBoxes[j]) => q.num = 0


\* A tensor of NumBoxes candidates, all with centre (modelWidth,
\* modelHeight), no extent and a Body score of 0.9.
CornerTensor ==
  Tensor("box-major",
         [i \in 1..NumBoxes |-> Row(inputShape[4], inputShape[3], 0, 0, 90, 0)])

\* C25 (as claimed): preprocessImage returns 3 * modelHeight * modelWidth
\* values, channel c of model pixel (x, y) at c * modelHeight * modelWidth +
\* y * modelWidth + x; there is a whole padY, (modelHeight - height) / 2
\* rounded either way, such that model pixel (x, y + padY) holds frame pixel
\* (x, y), every model pixel outside those rows or beyond column width holds
\* the value of black, and the decode subtracts that padY from y.
C25_LetterboxPlanar ==
  stage = "preprocessed" =>
    LET modelHeight == inputShape[3]
        modelWidth == inputShape[4]
        width == imageData.width
        height == imageData.height
        At(c, x, y) == preprocessed[c * modelHeight * modelWidth + y * modelWidth + x + 1]
    IN /\ Len(preprocessed) = 3 * modelHeight * modelWidth
       /\ \E padY \in {(modelHeight - height) \div 2, (modelHeight - height + 1) \div 2} :
            /\ \A c \in 0..2, x \in 0..(modelWidth - 1), y \in 0..(modelHeight - 1) :
                 At(c, x, y) =
                   IF x < width /\ y \in padY..(padY + height - 1)
                     THEN Normalise(c, pixels[(y - padY) * width + x + 1][c + 1])
                     ELSE Normalise(c, 0)
            /\ Corners(CornerTensor, 0, width, height).y1 = 2 * (modelHeight - padY)


\* No failure of the status callback shows in an initialize() call: no
\* candidate is failed by it and the call does not reject with it.
NoStatusError ==
  \A c \in InitCalls :
    calls[c].lastError.why # "status" /\ calls[c].error.why # "status"

\* 'Trying <backend>' came before the backend's success or failure: the
\* candidate an initialize() call of PersonSegmentation is at, or resolved
\* with, is the last one it announced.
TryingFirst ==
  kind = "seg" =>
    \A c \in InitCalls :
      calls[c].pc \in {"adapter", "create", "cleanup"} \/ calls[c].result = "resolved" =>
        /\ calls[c].tried # <<>>
        /\ calls[c].tried[Len(calls[c].tried)] = providers[calls[c].i]

\* C26 (as claimed): whatever the status callback does, initialize() fails
\* a candidate or rejects only for what the backend did, it resolves
\* exactly when it created a session, no create is left behind, and the
\* status strings come in the order of the phases.
C26_CallbackObservational ==
  /\ NoStatusError
  /\ orphanCreates = 0
  /\ \A c \in InitCalls :
       calls[c].pc = "done" =>
         (calls[c].result = "resolved" <=> calls[c].sessionCreated)
  /\ TryingFirst


\* Call c of method op takes a step: it starts or goes on.
Steps(c, op) == calls'[c] # calls[c] /\ calls'[c].op = op

\* C27: a step of detect() / segment(), whether the call goes on, resolves
\* or rejects, leaves the session reference, the sessions and every field
\* of the config as they were; executionProvider changes only in the step
\* in which an initialize() call resolves, and the session reference only
\* in a step of an initialize() or a dispose() call.
C27_InferLeavesInstanceUnchanged ==
  [][/\ \A c \in Slots :
          Steps(c, "infer") =>
            /\ UNCHANGED <<session, sessions, isWebGPU, kind, providers, onStatusUpdate>>
            /\ UNCHANGED <<executionProvider, inputShape, confidenceThreshold,
                           iouThreshold, threshold>>
     /\ executionProvider' # executionProvider =>
          \E c \in Slots :
            /\ Steps(c, "initialize") /\ Settles(c)
            /\ calls'[c].result = "resolved"
     /\ session' # session =>
          \E c \in Slots : Steps(c, "initialize") \/ Steps(c, "dispose")]_vars


\* The pipelines run r of initializeModel constructed.
PipelinesOf(r) == {Detector(r), Segmentation(r)}

\* C28: when a run of initializeModel has ended in its catch block, every
\* pipeline of the run whose initialize() succeeded and that dispose() was
\* not called on is the one a ref holds: none of them is left holding a
\* session that nothing can dispose.
C28_ErrorPathLeavesNoSession ==
  \A r \in Loads :
    loads[r] = "failed" =>
      \A p \in PipelinesOf(r) \cap holding :
        p \in {detectorRef, segmentationRef} \/ p \in disposeCalled


\* No run of initializeModel is in flight and none has ended in its catch
\* block.
LoadsSettled == \A r \in Loads : loads[r] \in {"idle", "loaded"}

\* C29: once every run of initializeModel has settled, whatever runs
\* overlapped and whenever the cleanup ran, every pipeline whose
\* initialize() succeeded and that dispose() was not called on is the one
\* detectorRef or segmentationRef holds.
C29_OverlappingLoadsKeepOrDispose ==
  LoadsSettled =>
    \A p \in holding : p \in {detectorRef, segmentationRef} \/ p \in disposeCalled


\* C30: while the button reads 'Start Detection', from the step of
\* stopDetection() to the next startDetection(), the published detections
\* are empty and the published mask is null, and no step starts a detect()
\* or a segment() call, whatever was in flight when the loop was stopped.
C30_StoppedStaysStopped ==
  [][~isDetecting' =>
       /\ appDetections' = "empty" /\ segmentationMask' = "null"
       /\ ~isDetecting =>
            /\ detectCalls' <= detectCalls
            /\ segmentCalls' <= segmentCalls]_vars

====
